---- MODULE Spec2Model ----
(***************************************************************************)
(* Verification model of krakatoa's instanced mesh model                   *)
(* (src/model/model.rs, struct Model<V, I>): the handle-indexed,           *)
(* visibility-partitioned instance registry, its three lazily created      *)
(* device buffers (src/buffer.rs, struct Buffer) and the draw commands it  *)
(* records.                                                                *)
(*                                                                         *)
(* Vec indices are 0-based as in the source; a Vec is a TLA+ sequence and  *)
(* At(s, i) reads s[i].  HashMap<usize, usize> is a function whose DOMAIN  *)
(* is the key set.  A Rust panic (index out of bounds, usize underflow)    *)
(* ends the program: `panicked` becomes TRUE and no operation follows.     *)
(***************************************************************************)
EXTENDS Integers, Sequences, FiniteSets, TLC

\* ----------------------------------------------------------------- bounds
\* Number of insertions explored (guards insert: next_handle < MaxInserts).
MaxInserts == 3
\* Number of writes through get_mut explored (guards GetMut: writes < MaxWrites).
MaxWrites == 1
\* Number of update_*_buffer calls explored (guards them: uploads < MaxUploads).
MaxUploads == 3
\* Number of failing device calls explored (guards the uploads: failures < MaxFailures).
MaxFailures == 1

\* Model<V, I> is generic over I: Copy and never reads an element, so the
\* payloads are opaque tokens.  The caller stores a different token with every
\* insertion and writes yet another one through get_mut, which makes every
\* mix-up of two records visible in `instances`.
NewElement(k) == k + 1              \* the payload of the k-th insertion
EditedElement(handle) == 0 - (handle + 1)   \* the payload written through get_mut(handle)
\* Handles a caller may pass: every handle that can be issued, plus one that
\* never is.
HandleArgs == 0..MaxInserts

VARIABLES
    vertex_data,      \* Vec<V>
    index_data,       \* Vec<u32>
    instances,        \* Vec<I>
    handles,          \* Vec<usize>
    handle_to_index,  \* HashMap<usize, usize>
    first_invisible,  \* usize
    next_handle,      \* usize
    vertex_buffer,    \* Option<Buffer>
    index_buffer,     \* Option<Buffer>
    instance_buffer,  \* Option<Buffer>
    panicked,         \* TRUE once an operation has panicked
    device,           \* the logical device: the objects created through it
    commands,         \* what the last draw recorded into its command buffer
    uploads,          \* number of update_*_buffer calls made
    failures,         \* number of update_*_buffer calls that did not return Ok
    live,             \* caller's record: handle issued and not removed -> value stored under it
    removed,          \* caller's record: issued handles whose remove returned Ok
    returned,         \* caller's record: the handles the insertions returned, in order
    writes,           \* number of writes made through get_mut
    constructed,      \* which constructor built the mesh, and how often it was refined
    uniform_buffer,   \* Krakatoa::uniform_buffer, None while there is no Krakatoa
    dropped,          \* TRUE once the Krakatoa has been dropped
    calls,            \* the destroy calls the drop has issued, in order
    current_image,    \* Swapchain::current_image
    may_begin_drawing,\* Swapchain::may_begin_drawing: fence -> signaled
    in_flight,        \* the submissions the queue has not finished
    frames,           \* number of RedrawRequested events handled
    overlapped        \* the submissions in flight when the host last wrote the buffers

modelVars == <<instances, handles, handle_to_index, first_invisible, next_handle,
               vertex_buffer, index_buffer, instance_buffer, panicked>>
gpuVars == <<device, commands, uploads, failures>>
meshVars == <<vertex_data, index_data, constructed>>
appVars == <<uniform_buffer, dropped, calls>>
frameVars == <<current_image, may_begin_drawing, in_flight, frames, overlapped>>
vars == <<vertex_data, index_data,
          instances, handles, handle_to_index, first_invisible, next_handle,
          vertex_buffer, index_buffer, instance_buffer, panicked,
          device, commands, uploads, failures, live, removed, returned, writes,
          constructed, uniform_buffer, dropped, calls,
          current_image, may_begin_drawing, in_flight, frames, overlapped>>

\* ------------------------------------------------------- Vec and HashMap
At(s, i) == s[i + 1]
InBounds(s, i) == i >= 0 /\ i < Len(s)
VecSwap(s, i, j) == [s EXCEPT ![i + 1] = s[j + 1], ![j + 1] = s[i + 1]]
VecPop(s) == SubSeq(s, 1, Len(s) - 1)
VecSet(s, i, v) == [s EXCEPT ![i + 1] = v]
MapInsert(f, k, v) == [x \in (DOMAIN f) \cup {k} |-> IF x = k THEN v ELSE f[x]]
MapRemove(f, k) == [x \in (DOMAIN f) \ {k} |-> f[x]]
ContainsKey(f, k) == k \in DOMAIN f
EmptyMap == [x \in {} |-> 0]

\* ------------------------------------------------------- return values
Unit == 0
None == [tag |-> "None", val |-> Unit, flag |-> FALSE]
Some(v) == [tag |-> "Some", val |-> v, flag |-> FALSE]
Ok(v) == [tag |-> "Ok", val |-> v, flag |-> FALSE]
OkBool(b) == [tag |-> "Ok", val |-> Unit, flag |-> b]
ErrInvalidHandle == [tag |-> "Err", val |-> Unit, flag |-> FALSE]
Panic == [tag |-> "Panic", val |-> Unit, flag |-> FALSE]

\* ------------------------------------------------------------- the Model
\* The struct as a record, so that a method is an operator from a Model (and
\* its arguments) to the Model it leaves behind and the value it returns.
\* Model::cube(): the eight corners (they are never read, so they are named,
\* not spelled out) and the 36 indices of the twelve triangles.
cube_vertex_data == <<"lbf", "lbb", "ltf", "ltb", "rbf", "rbb", "rtf", "rtb">>
cube_index_data ==
    <<0, 1, 5, 0, 5, 4,  2, 7, 3, 2, 6, 7,  0, 6, 2, 0, 4, 6,
      1, 3, 7, 1, 7, 5,  0, 2, 1, 1, 2, 3,  4, 5, 6, 5, 7, 6>>

\* No method but refine writes vertex_data or index_data after construction.
Self == [vertex_data |-> vertex_data, index_data |-> index_data,
         instances |-> instances, handles |-> handles,
         handle_to_index |-> handle_to_index, first_invisible |-> first_invisible,
         next_handle |-> next_handle,
         vertex_buffer |-> vertex_buffer, index_buffer |-> index_buffer,
         instance_buffer |-> instance_buffer, panicked |-> panicked]

Returns(m, r) == [m |-> m, ret |-> IF m.panicked THEN Panic ELSE r]
Panicking(m) == [m EXCEPT !.panicked = TRUE]

\* Model::cube(): a new Model.
NewModel == [vertex_data |-> cube_vertex_data, index_data |-> cube_index_data,
             instances |-> <<>>, handles |-> <<>>, handle_to_index |-> EmptyMap,
             first_invisible |-> 0, next_handle |-> 0,
             vertex_buffer |-> None, index_buffer |-> None,
             instance_buffer |-> None, panicked |-> FALSE]

get(m, handle) ==
    IF ContainsKey(m.handle_to_index, handle)
    THEN LET index == m.handle_to_index[handle]
         IN  IF InBounds(m.instances, index)
             THEN Returns(m, Some(At(m.instances, index)))
             ELSE Returns(m, None)
    ELSE Returns(m, None)

\* get_mut hands out &mut instances[index]; `element` is what the caller
\* writes through the reference.
get_mut(m, handle, element) ==
    IF ContainsKey(m.handle_to_index, handle)
    THEN LET index == m.handle_to_index[handle]
         IN  IF InBounds(m.instances, index)
             THEN Returns([m EXCEPT !.instances = VecSet(@, index, element)],
                          Some(element))
             ELSE Returns(m, None)
    ELSE Returns(m, None)

swap_by_handle(m, handle1, handle2) ==
    IF handle1 = handle2 THEN Returns(m, Ok(Unit))
    ELSE IF ContainsKey(m.handle_to_index, handle1)
            /\ ContainsKey(m.handle_to_index, handle2)
    THEN LET index1 == m.handle_to_index[handle1]
             index2 == m.handle_to_index[handle2]
         IN  IF ~InBounds(m.handles, index1) \/ ~InBounds(m.handles, index2)
             THEN Returns(Panicking(m), Panic)          \* Vec::swap out of bounds
             ELSE Returns(
                    [m EXCEPT !.handles = VecSwap(@, index1, index2),
                              !.instances = VecSwap(@, index1, index2),
                              !.handle_to_index =
                                  MapInsert(MapInsert(@, index1, handle1),
                                            index2, handle2)],
                    Ok(Unit))
    ELSE Returns(m, ErrInvalidHandle)

swap_by_index(m, index1, index2) ==
    IF index1 = index2 THEN m
    ELSE IF ~InBounds(m.handles, index1) \/ ~InBounds(m.handles, index2)
    THEN Panicking(m)                                   \* self.handles[index]
    ELSE LET handle1 == At(m.handles, index1)
             handle2 == At(m.handles, index2)
         IN  [m EXCEPT !.handles = VecSwap(@, index1, index2),
                       !.instances = VecSwap(@, index1, index2),
                       !.handle_to_index =
                           MapInsert(MapInsert(@, index1, handle2),
                                     index2, handle1)]

in_visible(m, handle) ==
    IF ContainsKey(m.handle_to_index, handle)
    THEN Returns(m, OkBool(m.handle_to_index[handle] < m.first_invisible))
    ELSE Returns(m, ErrInvalidHandle)

\* make_visible as it would be if it counted the handle as shown before
\* finding that it is unknown.
make_visible_counting(m, handle) ==
    IF ContainsKey(m.handle_to_index, handle)
    THEN LET index == m.handle_to_index[handle]
         IN  IF index < m.first_invisible THEN Returns(m, Ok(Unit))
             ELSE LET s == swap_by_index(m, index, m.first_invisible)
                  IN  IF s.panicked THEN Returns(s, Panic)
                      ELSE Returns([s EXCEPT !.first_invisible = @ + 1], Ok(Unit))
    ELSE Returns([m EXCEPT !.first_invisible = @ + 1], ErrInvalidHandle)

make_visible(m, handle) ==
    IF ContainsKey(m.handle_to_index, handle)
    THEN LET index == m.handle_to_index[handle]
         IN  IF index < m.first_invisible THEN Returns(m, Ok(Unit))
             ELSE LET s == swap_by_index(m, index, m.first_invisible)
                  IN  IF s.panicked THEN Returns(s, Panic)
                      ELSE Returns([s EXCEPT !.first_invisible = @ + 1], Ok(Unit))
    ELSE Returns(m, ErrInvalidHandle)

make_invisible(m, handle) ==
    IF ContainsKey(m.handle_to_index, handle)
    THEN LET index == m.handle_to_index[handle]
         IN  IF index >= m.first_invisible THEN Returns(m, Ok(Unit))
             ELSE \* index < first_invisible, so first_invisible - 1 cannot underflow
                  LET s == swap_by_index(m, index, m.first_invisible - 1)
                  IN  IF s.panicked THEN Returns(s, Panic)
                      ELSE Returns([s EXCEPT !.first_invisible = @ - 1], Ok(Unit))
    ELSE Returns(m, ErrInvalidHandle)

\* insert as it would be with the slot index handed out as the handle.
insert_reusing_index(m, element) ==
    LET handle == Len(m.instances)
        index == Len(m.instances)
    IN  Returns([m EXCEPT !.next_handle = @ + 1,
                          !.instances = Append(@, element),
                          !.handles = Append(@, handle),
                          !.handle_to_index = MapInsert(@, handle, index)],
                Ok(handle))

insert(m, element) ==
    LET handle == m.next_handle
        index == Len(m.instances)
    IN  Returns([m EXCEPT !.next_handle = @ + 1,
                          !.instances = Append(@, element),
                          !.handles = Append(@, handle),
                          !.handle_to_index = MapInsert(@, handle, index)],
                Ok(handle))

insert_visibly(m, element) ==
    LET i == insert(m, element)
        new_handle == i.ret.val
        v == make_visible(i.m, new_handle)       \* .ok() drops the Result
    IN  Returns(v.m, Ok(new_handle))

remove(m, handle) ==
    IF ContainsKey(m.handle_to_index, handle)
    THEN LET index == m.handle_to_index[handle]
             s1 == IF index < m.first_invisible
                   THEN LET s == swap_by_index(m, index, m.first_invisible - 1)
                        IN  IF s.panicked THEN s
                            ELSE [s EXCEPT !.first_invisible = @ - 1]
                   ELSE m
             \* instances.len() - 1 underflows on an empty Vec: a panic in a
             \* debug build; in a release build it wraps to usize::MAX and
             \* self.handles[first_invisible] on the empty Vec panics.
             s2 == IF s1.panicked \/ Len(s1.instances) = 0 THEN Panicking(s1)
                   ELSE swap_by_index(s1, s1.first_invisible, Len(s1.instances) - 1)
         IN  IF s2.panicked THEN Returns(s2, Panic)
             ELSE Returns([s2 EXCEPT !.handles = VecPop(@),
                                     !.handle_to_index = MapRemove(@, handle),
                                     !.instances = VecPop(@)],
                          Ok(At(s2.instances, Len(s2.instances) - 1)))
    ELSE Returns(m, ErrInvalidHandle)

\* ------------------------------------------------------------- the device
\* size_of::<f32>() and size_of::<u32>()
size_of_f32 == 4
size_of_u32 == 4
\* VertexData: position [f32; 3], normal [f32; 3]
size_of_VertexData == (3 + 3) * size_of_f32
\* InstanceData: model_matrix and inverse_model_matrix [[f32; 4]; 4], colour [f32; 3]
size_of_InstanceData == (4 * 4 + 4 * 4 + 3) * size_of_f32
\* std::mem::size_of_val(data) for data: &[T]
size_of_val(data, size_of_T) == Len(data) * size_of_T
\* &s[a..b]
Slice(s, a, b) == SubSeq(s, a + 1, b)

VERTEX_BUFFER == "VERTEX_BUFFER"
INDEX_BUFFER == "INDEX_BUFFER"
UINT32 == "UINT32"

\* The device call that fails during one method call; NoFailure: all succeed.
NoFailure == "none"
DeviceCalls == {"create_buffer", "find_memorytype_index", "allocate_memory",
                "map_memory", "bind_buffer_memory"}
Failures == {NoFailure} \cup DeviceCalls

VkError == [tag |-> "VkError", val |-> Unit, flag |-> FALSE]

\* ash::Device as far as Buffer and Model use it.  Buffer and memory handles
\* are numbered in the order the device hands them out.
\*   buffers    the buffer objects created and not destroyed
\*   destroyed  buffer -> number of destroy_buffer calls made on it
\*   memory     allocation -> the slice last copied into it (never freed)
\*   bound      buffer -> the allocations bound to it, one per bind_buffer_memory
NewDevice == [next_buffer |-> 0, next_memory |-> 0, buffers |-> {},
              destroyed |-> EmptyMap, memory |-> EmptyMap, bound |-> EmptyMap]

create_buffer(d) ==
    [d EXCEPT !.next_buffer = @ + 1, !.buffers = @ \cup {d.next_buffer}]

destroy_buffer(d, buffer) ==
    [d EXCEPT !.buffers = @ \ {buffer},
              !.destroyed = MapInsert(@, buffer,
                                IF ContainsKey(d.destroyed, buffer)
                                THEN d.destroyed[buffer] + 1 ELSE 1)]

allocate_memory(d) ==
    [d EXCEPT !.next_memory = @ + 1, !.memory = MapInsert(@, d.next_memory, <<>>)]

\* map_memory, Align::copy_from_slice, unmap_memory
copy_from_slice(d, memory, data) ==
    [d EXCEPT !.memory = MapInsert(@, memory, data)]

bind_buffer_memory(d, buffer, memory) ==
    [d EXCEPT !.bound = MapInsert(@, buffer,
                            IF ContainsKey(d.bound, buffer)
                            THEN Append(d.bound[buffer], memory)
                            ELSE <<memory>>)]

\* ------------------------------------------------------------- the Buffer
\* struct Buffer without `requirements`, which only sizes the mapped range.
Buffer_init(d, size_in_bytes, usage, fail) ==
    IF fail = "create_buffer" THEN [d |-> d, ret |-> VkError]
    ELSE LET buffer == d.next_buffer
             d1 == create_buffer(d)
         IN  IF fail = "find_memorytype_index" THEN [d |-> d1, ret |-> Panic]  \* .expect
             ELSE IF fail = "allocate_memory" THEN [d |-> d1, ret |-> VkError]
             ELSE [d |-> allocate_memory(d1),
                   ret |-> Ok([buffer |-> buffer, size_in_bytes |-> size_in_bytes,
                               usage |-> usage, memory |-> d1.next_memory])]

\* Buffer::fill as it would be if it rebuilt the buffer for every payload
\* of another size.
Buffer_fill_exact(self, d, data, size_of_T, fail) ==
    LET bytes_to_write == size_of_val(data, size_of_T)
        grow == bytes_to_write # self.size_in_bytes
        d1 == IF grow THEN destroy_buffer(d, self.buffer) ELSE d
        new_buffer == IF grow THEN Buffer_init(d1, bytes_to_write, self.usage, fail)
                      ELSE [d |-> d, ret |-> Ok(self)]
    IN  IF new_buffer.ret.tag # "Ok"
        THEN [self |-> self, d |-> new_buffer.d, ret |-> new_buffer.ret]
        ELSE LET self1 == new_buffer.ret.val
                 d2 == new_buffer.d
             IN  IF fail = "map_memory" THEN [self |-> self1, d |-> d2, ret |-> VkError]
                 ELSE LET d3 == copy_from_slice(d2, self1.memory, data)
                      IN  IF fail = "bind_buffer_memory"
                          THEN [self |-> self1, d |-> d3, ret |-> VkError]
                          ELSE [self |-> self1,
                                d |-> bind_buffer_memory(d3, self1.buffer, self1.memory),
                                ret |-> Ok(Unit)]

\* fill(&mut self, ..): `self` is the Buffer as the call leaves it, whatever
\* it returns.
Buffer_fill(self, d, data, size_of_T, fail) ==
    LET bytes_to_write == size_of_val(data, size_of_T)
        grow == bytes_to_write > self.size_in_bytes
        d1 == IF grow THEN destroy_buffer(d, self.buffer) ELSE d
        new_buffer == IF grow THEN Buffer_init(d1, bytes_to_write, self.usage, fail)
                      ELSE [d |-> d, ret |-> Ok(self)]
    IN  IF new_buffer.ret.tag # "Ok"
        THEN [self |-> self, d |-> new_buffer.d, ret |-> new_buffer.ret]   \* `?`
        ELSE LET self1 == new_buffer.ret.val                      \* *self = new_buffer
                 d2 == new_buffer.d
             IN  IF fail = "map_memory" THEN [self |-> self1, d |-> d2, ret |-> VkError]
                 ELSE LET d3 == copy_from_slice(d2, self1.memory, data)
                      IN  IF fail = "bind_buffer_memory"
                          THEN [self |-> self1, d |-> d3, ret |-> VkError]
                          ELSE [self |-> self1,
                                d |-> bind_buffer_memory(d3, self1.buffer, self1.memory),
                                ret |-> Ok(Unit)]

\* ------------------------------------------------------ uploads and draw
\* What an update_*_buffer call leaves: the Model, the device, the Result.
Uploaded(m, d, ret) ==
    [m |-> IF ret = Panic THEN Panicking(m) ELSE m, d |-> d, ret |-> ret]

update_vertex_buffer(m, d, fail) ==
    IF m.vertex_buffer.tag = "Some"
    THEN LET f == Buffer_fill(m.vertex_buffer.val, d, m.vertex_data,
                              size_of_VertexData, fail)
         IN  Uploaded([m EXCEPT !.vertex_buffer = Some(f.self)], f.d, f.ret)
    ELSE LET bytes == Len(m.vertex_data) * size_of_VertexData
             i == Buffer_init(d, bytes, VERTEX_BUFFER, fail)
         IN  IF i.ret.tag # "Ok" THEN Uploaded(m, i.d, i.ret)
             ELSE LET f == Buffer_fill(i.ret.val, i.d, m.vertex_data,
                                       size_of_VertexData, fail)
                  IN  IF f.ret.tag # "Ok" THEN Uploaded(m, f.d, f.ret)
                      ELSE Uploaded([m EXCEPT !.vertex_buffer = Some(f.self)],
                                    f.d, Ok(Unit))

update_index_buffer(m, d, fail) ==
    IF m.index_buffer.tag = "Some"
    THEN LET f == Buffer_fill(m.index_buffer.val, d, m.index_data, size_of_u32, fail)
         IN  Uploaded([m EXCEPT !.index_buffer = Some(f.self)], f.d, f.ret)
    ELSE LET bytes == Len(m.index_data) * size_of_u32
             i == Buffer_init(d, bytes, INDEX_BUFFER, fail)
         IN  IF i.ret.tag # "Ok" THEN Uploaded(m, i.d, i.ret)
             ELSE LET f == Buffer_fill(i.ret.val, i.d, m.index_data, size_of_u32, fail)
                  IN  IF f.ret.tag # "Ok" THEN Uploaded(m, f.d, f.ret)
                      ELSE Uploaded([m EXCEPT !.index_buffer = Some(f.self)],
                                    f.d, Ok(Unit))

\* &self.instances[0..self.first_invisible] panics when first_invisible
\* exceeds the length; in the creating branch Buffer::init has run by then.
update_instance_buffer(m, d, fail) ==
    IF m.instance_buffer.tag = "Some"
    THEN IF m.first_invisible > Len(m.instances) THEN Uploaded(m, d, Panic)
         ELSE LET f == Buffer_fill(m.instance_buffer.val, d,
                                   Slice(m.instances, 0, m.first_invisible),
                                   size_of_InstanceData, fail)
              IN  Uploaded([m EXCEPT !.instance_buffer = Some(f.self)], f.d, f.ret)
    ELSE LET bytes == m.first_invisible * size_of_InstanceData
             i == Buffer_init(d, bytes, VERTEX_BUFFER, fail)
         IN  IF i.ret.tag # "Ok" THEN Uploaded(m, i.d, i.ret)
             ELSE IF m.first_invisible > Len(m.instances) THEN Uploaded(m, i.d, Panic)
             ELSE LET f == Buffer_fill(i.ret.val, i.d,
                                       Slice(m.instances, 0, m.first_invisible),
                                       size_of_InstanceData, fail)
                  IN  IF f.ret.tag # "Ok" THEN Uploaded(m, f.d, f.ret)
                      ELSE Uploaded([m EXCEPT !.instance_buffer = Some(f.self)],
                                    f.d, Ok(Unit))

\* The commands a command buffer holds.
cmd_bind_vertex_buffers(first_binding, buffer, offset) ==
    [cmd |-> "cmd_bind_vertex_buffers", buffer |-> buffer, index_type |-> "",
     args |-> <<first_binding, offset>>]
cmd_bind_index_buffer(buffer, offset, index_type) ==
    [cmd |-> "cmd_bind_index_buffer", buffer |-> buffer, index_type |-> index_type,
     args |-> <<offset>>]
cmd_draw_indexed(index_count, instance_count, first_index, vertex_offset, first_instance) ==
    [cmd |-> "cmd_draw_indexed", buffer |-> 0 - 1, index_type |-> "",
     args |-> <<index_count, instance_count, first_index, vertex_offset, first_instance>>]

\* draw as it would be without the test for visible instances.
draw_ungated(m) ==
    IF m.vertex_buffer.tag = "Some" /\ m.instance_buffer.tag = "Some"
    THEN LET first == <<cmd_bind_vertex_buffers(0, m.vertex_buffer.val.buffer, 0)>>
         IN  IF m.index_buffer.tag # "Some"
             THEN [m |-> Panicking(m), commands |-> first]
             ELSE [m |-> m,
                   commands |-> first \o
                     <<cmd_bind_index_buffer(m.index_buffer.val.buffer, 0, UINT32),
                       cmd_bind_vertex_buffers(1, m.instance_buffer.val.buffer, 0),
                       cmd_draw_indexed(Len(m.index_data), m.first_invisible, 0, 0, 0)>>]
    ELSE [m |-> m, commands |-> <<>>]

\* draw(&self, ..): the commands recorded into the command buffer; the
\* unwrap of index_buffer panics after the first command.
draw(m) ==
    IF m.vertex_buffer.tag = "Some" /\ m.instance_buffer.tag = "Some"
       /\ m.first_invisible > 0
    THEN LET first == <<cmd_bind_vertex_buffers(0, m.vertex_buffer.val.buffer, 0)>>
         IN  IF m.index_buffer.tag # "Some"
             THEN [m |-> Panicking(m), commands |-> first]
             ELSE [m |-> m,
                   commands |-> first \o
                     <<cmd_bind_index_buffer(m.index_buffer.val.buffer, 0, UINT32),
                       cmd_bind_vertex_buffers(1, m.instance_buffer.val.buffer, 0),
                       cmd_draw_indexed(Len(m.index_data), m.first_invisible, 0, 0, 0)>>]
    ELSE [m |-> m, commands |-> <<>>]

\* ------------------------------------------------------------ the caller
\* The caller keeps what an insertion returned until remove gives it back.
Registered(h) == h \in DOMAIN live

Commit(r) ==
    /\ instances' = r.m.instances
    /\ handles' = r.m.handles
    /\ handle_to_index' = r.m.handle_to_index
    /\ first_invisible' = r.m.first_invisible
    /\ next_handle' = r.m.next_handle
    /\ vertex_buffer' = r.m.vertex_buffer
    /\ index_buffer' = r.m.index_buffer
    /\ instance_buffer' = r.m.instance_buffer
    /\ panicked' = r.m.panicked
    /\ UNCHANGED meshVars

\* ---------------------------------------------------------------- actions
Insert ==
    /\ ~panicked /\ next_handle < MaxInserts
    /\ LET element == NewElement(next_handle)
           r == insert(Self, element)
       IN  /\ Commit(r)
           /\ live' = MapInsert(live, r.ret.val, element)
           /\ returned' = Append(returned, r.ret.val)
    /\ UNCHANGED <<removed, writes>>
    /\ UNCHANGED <<gpuVars, appVars, frameVars>>

InsertVisibly ==
    /\ ~panicked /\ next_handle < MaxInserts
    /\ LET element == NewElement(next_handle)
           r == insert_visibly(Self, element)
       IN  /\ Commit(r)
           /\ live' = MapInsert(live, r.ret.val, element)
           /\ returned' = Append(returned, r.ret.val)
    /\ UNCHANGED <<removed, writes>>
    /\ UNCHANGED <<gpuVars, appVars, frameVars>>

Remove(handle) ==
    /\ ~panicked
    /\ LET r == remove(Self, handle)
       IN  /\ Commit(r)
           /\ live' = IF r.ret.tag = "Ok" THEN MapRemove(live, handle) ELSE live
           /\ removed' = IF r.ret.tag = "Ok" /\ Registered(handle)
                         THEN removed \cup {handle} ELSE removed
    /\ UNCHANGED <<returned, writes>>
    /\ UNCHANGED <<gpuVars, appVars, frameVars>>

MakeVisible(handle) ==
    /\ ~panicked
    /\ Commit(make_visible(Self, handle))
    /\ UNCHANGED <<live, removed, returned, writes>>
    /\ UNCHANGED <<gpuVars, appVars, frameVars>>

MakeInvisible(handle) ==
    /\ ~panicked
    /\ Commit(make_invisible(Self, handle))
    /\ UNCHANGED <<live, removed, returned, writes>>
    /\ UNCHANGED <<gpuVars, appVars, frameVars>>

InVisible(handle) ==
    /\ ~panicked
    /\ Commit(in_visible(Self, handle))
    /\ UNCHANGED <<live, removed, returned, writes>>
    /\ UNCHANGED <<gpuVars, appVars, frameVars>>

Get(handle) ==
    /\ ~panicked
    /\ Commit(get(Self, handle))
    /\ UNCHANGED <<live, removed, returned, writes>>
    /\ UNCHANGED <<gpuVars, appVars, frameVars>>

GetMut(handle) ==
    /\ ~panicked /\ writes < MaxWrites
    /\ LET element == EditedElement(handle)
           r == get_mut(Self, handle, element)
       IN  /\ Commit(r)
           /\ live' = IF r.ret.tag = "Some" /\ Registered(handle)
                      THEN MapInsert(live, handle, element) ELSE live
           /\ writes' = IF r.ret.tag = "Some" THEN writes + 1 ELSE writes
    /\ UNCHANGED <<removed, returned>>
    /\ UNCHANGED <<gpuVars, appVars, frameVars>>

SwapByHandle(handle1, handle2) ==
    /\ ~panicked
    /\ Commit(swap_by_handle(Self, handle1, handle2))
    /\ UNCHANGED <<live, removed, returned, writes>>
    /\ UNCHANGED <<gpuVars, appVars, frameVars>>

CommitUpload(r) ==
    /\ Commit(r)
    /\ device' = r.d
    /\ uploads' = uploads + 1
    /\ failures' = IF r.ret.tag = "Ok" THEN failures ELSE failures + 1
    /\ UNCHANGED <<commands, live, removed, returned, writes>>
    /\ UNCHANGED <<appVars, frameVars>>

UpdateVertexBuffer(fail) ==
    /\ ~panicked /\ uploads < MaxUploads
    /\ fail = NoFailure \/ failures < MaxFailures
    /\ CommitUpload(update_vertex_buffer(Self, device, fail))

UpdateIndexBuffer(fail) ==
    /\ ~panicked /\ uploads < MaxUploads
    /\ fail = NoFailure \/ failures < MaxFailures
    /\ CommitUpload(update_index_buffer(Self, device, fail))

UpdateInstanceBuffer(fail) ==
    /\ ~panicked /\ uploads < MaxUploads
    /\ fail = NoFailure \/ failures < MaxFailures
    /\ CommitUpload(update_instance_buffer(Self, device, fail))

Draw ==
    /\ ~panicked
    /\ LET r == draw(Self)
       IN  /\ Commit(r)
           /\ commands' = r.commands
    /\ UNCHANGED <<device, uploads, failures, live, removed, returned, writes>>
    /\ UNCHANGED <<appVars, frameVars>>

Init ==
    /\ vertex_data = NewModel.vertex_data
    /\ index_data = NewModel.index_data
    /\ constructed = [by |-> "cube", refinements |-> 0]
    /\ uniform_buffer = None
    /\ dropped = FALSE
    /\ calls = <<>>
    /\ current_image = 0
    /\ may_begin_drawing = <<>>
    /\ in_flight = {}
    /\ frames = 0
    /\ overlapped = {}
    /\ instances = NewModel.instances
    /\ handles = NewModel.handles
    /\ handle_to_index = NewModel.handle_to_index
    /\ first_invisible = NewModel.first_invisible
    /\ next_handle = NewModel.next_handle
    /\ vertex_buffer = NewModel.vertex_buffer
    /\ index_buffer = NewModel.index_buffer
    /\ instance_buffer = NewModel.instance_buffer
    /\ panicked = NewModel.panicked
    /\ device = NewDevice
    /\ commands = <<>>
    /\ uploads = 0
    /\ failures = 0
    /\ live = EmptyMap
    /\ removed = {}
    /\ returned = <<>>
    /\ writes = 0

\* The calls that keep the partition: insertions, removal, show and hide, and
\* the two queries.
NextCore ==
    \/ Insert
    \/ InsertVisibly
    \/ \E handle \in HandleArgs : Remove(handle)
    \/ \E handle \in HandleArgs : MakeVisible(handle)
    \/ \E handle \in HandleArgs : MakeInvisible(handle)
    \/ \E handle \in HandleArgs : InVisible(handle)
    \/ \E handle \in HandleArgs : Get(handle)

\* Every call that can change handles, handle_to_index, first_invisible or
\* next_handle (get_mut reaches none of them).
Next ==
    \/ NextCore
    \/ \E handle1, handle2 \in HandleArgs : SwapByHandle(handle1, handle2)

\* NextCore and writes through get_mut.
NextMut ==
    \/ NextCore
    \/ \E handle \in HandleArgs : GetMut(handle)

\* The registry calls that keep the partition, and uploads of the instances
\* on a device whose calls succeed.
NextInstances ==
    \/ NextCore
    \/ UpdateInstanceBuffer(NoFailure)

\* A caller that shows, hides, uploads and draws, on a device any call of
\* which may fail.
NextGpu ==
    \/ InsertVisibly
    \/ \E handle \in HandleArgs : MakeVisible(handle)
    \/ \E handle \in HandleArgs : MakeInvisible(handle)
    \/ \E fail \in Failures : UpdateVertexBuffer(fail)
    \/ \E fail \in Failures : UpdateIndexBuffer(fail)
    \/ \E fail \in Failures : UpdateInstanceBuffer(fail)
    \/ Draw

Spec == Init /\ [][Next]_vars
SpecInstances == Init /\ [][NextInstances]_vars
SpecGpu == Init /\ [][NextGpu]_vars
SpecCore == Init /\ [][NextCore]_vars
SpecMut == Init /\ [][NextMut]_vars

\* ------------------------------------------------------------------ claims
\* A panic ends the program with the Model half-updated and out of reach, so
\* the claims speak of the states in which the Model can still be used.
Usable == ~panicked

Indices(s) == 0..(Len(s) - 1)
Keys(f) == DOMAIN f

\* C1 (map-array consistency): after any sequence of calls, every key h of
\* handle_to_index has handle_to_index[h] < |handles| and
\* handles[handle_to_index[h]] = h.
C1_MapArrayConsistency ==
    Usable =>
        \A h \in Keys(handle_to_index) :
            /\ handle_to_index[h] < Len(handles)
            /\ At(handles, handle_to_index[h]) = h

\* C2 (partition bound): in every state, 0 <= first_invisible <= |instances|.
C2_PartitionBound ==
    Usable => (0 <= first_invisible /\ first_invisible <= Len(instances))

\* C3 (stable handles): for every handle returned by an insertion and not
\* yet removed, get(h) returns Some(v), v being the value inserted under h or
\* last written through get_mut(h), whatever insert, insert_visibly,
\* make_visible, make_invisible and remove calls came in between.
C3_StableHandles ==
    Usable => \A h \in Keys(live) : get(Self, h).ret = Some(live[h])

Position(m, h) == {p \in Indices(m.handles) : At(m.handles, p) = h}

\* C4 (visibility is reported correctly): for every registered handle h,
\* in_visible(h) returns Ok(true) if and only if the position p with
\* handles[p] = h satisfies p < first_invisible.
C4_VisibilityReported ==
    Usable =>
        \A h \in Keys(live) :
            (in_visible(Self, h).ret = OkBool(TRUE))
                <=> (\E p \in Position(Self, h) : p < first_invisible)

\* The records of a Model: each handle paired with the instance stored beside it.
Records(m) == {<<At(m.handles, p), At(m.instances, p)>> : p \in Indices(m.handles)}

\* C5 (remove is exact): remove(h) on a registered handle h returns Ok(v), v
\* being the value associated with h, shortens instances and handles by
\* exactly one, and deletes exactly h's record and h's map entry.
C5_RemoveExact ==
    Usable =>
        \A h \in Keys(live) :
            LET r == remove(Self, h)
            IN  /\ r.ret = Ok(live[h])
                /\ Len(r.m.instances) = Len(instances) - 1
                /\ Len(r.m.handles) = Len(handles) - 1
                /\ Records(r.m) = {rec \in Records(Self) : rec[1] # h}
                /\ Keys(r.m.handle_to_index) = Keys(handle_to_index) \ {h}

\* C6 (a removed handle is permanently invalid): once remove(h) has returned
\* Ok, get(h) and get_mut(h) return None and remove(h), make_visible(h),
\* make_invisible(h) and in_visible(h) return Err(InvalidHandle), whatever
\* happens to other handles in between.
C6_RemovedHandleInvalid ==
    Usable =>
        \A h \in removed :
            /\ get(Self, h).ret = None
            /\ get_mut(Self, h, EditedElement(h)).ret = None
            /\ remove(Self, h).ret = ErrInvalidHandle
            /\ make_visible(Self, h).ret = ErrInvalidHandle
            /\ make_invisible(Self, h).ret = ErrInvalidHandle
            /\ in_visible(Self, h).ret = ErrInvalidHandle

Range(s) == {s[i] : i \in DOMAIN s}

\* C7 (structural agreement): in every state |instances| = |handles|, handles
\* holds no duplicate, and the keys of handle_to_index are exactly the entries
\* of handles.
C7_StructuralAgreement ==
    Usable =>
        /\ Len(instances) = Len(handles)
        /\ \A p, q \in Indices(handles) : At(handles, p) = At(handles, q) => p = q
        /\ Keys(handle_to_index) = Range(handles)

\* What a caller can see of handle g, in Model m.
Observed(m, g) == <<get(m, g).ret, in_visible(m, g).ret>>

\* C8 (frame): insert, insert_visibly, make_visible(h), make_invisible(h) and
\* remove(h) leave every other registered handle g # h registered, with the
\* same value (get(g)) and the same visibility (in_visible(g)).  Stated for
\* the calls that return: h registered, the call not panicking.
C8_OthersUndisturbed ==
    Usable =>
        \A g \in Keys(live) :
            /\ \A h \in Keys(live) \ {g} :
                 \A r \in {make_visible(Self, h), make_invisible(Self, h), remove(Self, h)} :
                    ~r.m.panicked => Observed(r.m, g) = Observed(Self, g)
            /\ \A r \in {insert(Self, NewElement(next_handle)),
                          insert_visibly(Self, NewElement(next_handle))} :
                    ~r.m.panicked => Observed(r.m, g) = Observed(Self, g)

NoDuplicates(s) == \A i, j \in DOMAIN s : s[i] = s[j] => i = j

\* C9 (handle uniqueness): next_handle never decreases; every insert and
\* insert_visibly returns the value next_handle had before the call and
\* increases it by one; so no two insertions return the same handle, also
\* after removals.
C9_HandleUniqueness ==
    /\ [](Usable =>
            /\ NoDuplicates(returned)
            /\ \A r \in {insert(Self, NewElement(next_handle)),
                          insert_visibly(Self, NewElement(next_handle))} :
                    /\ r.ret = Ok(next_handle)
                    /\ r.m.next_handle = next_handle + 1)
    /\ [][next_handle' >= next_handle]_vars

\* An insertion has returned after a removal: handles are out, one of them
\* is gone, another is still registered.
C9_Witness ==
    /\ Usable
    /\ removed # {}
    /\ Len(returned) >= 2
    /\ Keys(live) # {}
    /\ \E h \in removed : \E g \in Keys(live) : h < g

\* C10 (InvalidHandle iff not registered): get and get_mut return None, and
\* remove, make_visible, make_invisible, in_visible and swap_by_handle (for
\* either of its handles, also when both are equal) return
\* Err(InvalidHandle), exactly when the handle was never issued or has been
\* removed.
C10_InvalidHandleIff ==
    Usable =>
        \A h \in HandleArgs :
            /\ (get(Self, h).ret = None) <=> ~Registered(h)
            /\ (get_mut(Self, h, EditedElement(h)).ret = None) <=> ~Registered(h)
            /\ (remove(Self, h).ret = ErrInvalidHandle) <=> ~Registered(h)
            /\ (make_visible(Self, h).ret = ErrInvalidHandle) <=> ~Registered(h)
            /\ (make_invisible(Self, h).ret = ErrInvalidHandle) <=> ~Registered(h)
            /\ (in_visible(Self, h).ret = ErrInvalidHandle) <=> ~Registered(h)
            /\ \A g \in HandleArgs :
                 (swap_by_handle(Self, h, g).ret = ErrInvalidHandle)
                     <=> (~Registered(h) \/ ~Registered(g))

\* The calls that can fail with a logical error, on handle h (swap_by_handle
\* with h as either argument).
FallibleCalls(m, h) ==
    {remove(m, h), make_visible(m, h), make_invisible(m, h), in_visible(m, h)}
        \cup {swap_by_handle(m, h, g) : g \in HandleArgs}
        \cup {swap_by_handle(m, g, h) : g \in HandleArgs}

\* C11 (logical errors leave the registry unchanged): whenever remove,
\* make_visible, make_invisible, in_visible or swap_by_handle returns
\* Err(InvalidHandle), or get returns None, the fields instances, handles,
\* handle_to_index, first_invisible and next_handle are as before the call.
C11_ErrorsChangeNothing ==
    Usable =>
        \A h \in HandleArgs :
            /\ \A r \in FallibleCalls(Self, h) :
                    r.ret = ErrInvalidHandle => r.m = Self
            /\ get(Self, h).ret = None => get(Self, h).m = Self

\* A call on an unknown handle has failed in a Model that holds records and
\* has already lost one.
C11_Witness ==
    /\ Usable
    /\ Len(instances) > 0
    /\ removed # {}
    /\ \E h \in removed :
            /\ remove(Self, h).ret = ErrInvalidHandle
            /\ make_visible(Self, h).ret = ErrInvalidHandle
            /\ get(Self, h).ret = None
    /\ \E h \in removed, g \in Keys(live) :
            swap_by_handle(Self, g, h).ret = ErrInvalidHandle

\* C12 (show and hide): make_visible(h) on a registered hidden handle
\* increases first_invisible by exactly one and makes in_visible(h) return
\* Ok(true); make_invisible(h) on a registered visible handle decreases it by
\* exactly one and makes in_visible(h) return Ok(false); neither changes
\* |instances|; when h already has the requested visibility no field changes.
C12_ShowHide ==
    Usable =>
        \A h \in Keys(live) :
            LET show == make_visible(Self, h)
                hide == make_invisible(Self, h)
            IN  /\ in_visible(Self, h).ret = OkBool(FALSE) =>
                    /\ show.ret = Ok(Unit)
                    /\ show.m.first_invisible = first_invisible + 1
                    /\ in_visible(show.m, h).ret = OkBool(TRUE)
                    /\ Len(show.m.instances) = Len(instances)
                    /\ hide.ret = Ok(Unit) /\ hide.m = Self
                /\ in_visible(Self, h).ret = OkBool(TRUE) =>
                    /\ hide.ret = Ok(Unit)
                    /\ hide.m.first_invisible = first_invisible - 1
                    /\ in_visible(hide.m, h).ret = OkBool(FALSE)
                    /\ Len(hide.m.instances) = Len(instances)
                    /\ show.ret = Ok(Unit) /\ show.m = Self

\* C13 (show and hide are idempotent): for every registered handle h,
\* make_visible(h) twice leaves the same registry state as once, and
\* likewise make_invisible(h).
C13_Idempotent ==
    Usable =>
        \A h \in Keys(live) :
            LET show == make_visible(Self, h)
                hide == make_invisible(Self, h)
            IN  /\ ~show.m.panicked => make_visible(show.m, h).m = show.m
                /\ ~hide.m.panicked => make_invisible(hide.m, h).m = hide.m

\* C14 (swap_by_handle): with two distinct registered handles it exchanges
\* the two records in instances and handles, and afterwards
\* handle_to_index[h1] is h2's former index and handle_to_index[h2] is h1's;
\* no other key is added, removed or changed.
C14_SwapByHandle ==
    Usable =>
        \A h1, h2 \in Keys(live) :
            (h1 # h2 /\ ContainsKey(handle_to_index, h1)
                     /\ ContainsKey(handle_to_index, h2)) =>
                LET index1 == handle_to_index[h1]
                    index2 == handle_to_index[h2]
                    r == swap_by_handle(Self, h1, h2)
                IN  /\ r.ret = Ok(Unit)
                    /\ r.m.handles = VecSwap(handles, index1, index2)
                    /\ r.m.instances = VecSwap(instances, index1, index2)
                    /\ r.m.handle_to_index =
                           [k \in Keys(handle_to_index) |->
                               IF k = h1 THEN index2
                               ELSE IF k = h2 THEN index1
                               ELSE handle_to_index[k]]

\* C15 (insert): insert(i) appends i at position |instances|, appends the
\* fresh handle to handles, sets handle_to_index[handle] to that position
\* and leaves first_invisible unchanged, so the new handle is initially
\* hidden (in_visible returns Ok(false)).
C15_InsertHidden ==
    Usable =>
        LET element == NewElement(next_handle)
            r == insert(Self, element)
            handle == r.ret.val
        IN  /\ r.ret.tag = "Ok"
            /\ r.m.instances = Append(instances, element)
            /\ r.m.handles = Append(handles, handle)
            /\ ContainsKey(r.m.handle_to_index, handle)
            /\ r.m.handle_to_index[handle] = Len(instances)
            /\ r.m.first_invisible = first_invisible
            /\ in_visible(r.m, handle).ret = OkBool(FALSE)

\* n insert_visibly calls on a new Model: the Model left and the handles returned.
RECURSIVE InsertedVisibly(_)
InsertedVisibly(n) ==
    IF n = 0 THEN [m |-> NewModel, handles |-> <<>>]
    ELSE LET before == InsertedVisibly(n - 1)
             r == insert_visibly(before.m, NewElement(n - 1))
         IN  [m |-> r.m, handles |-> Append(before.handles, r.ret.val)]

\* C16 (insert_visibly): it has the effect of insert followed by
\* make_visible on the returned handle: afterwards that handle is reported
\* visible and first_invisible is one greater than before; n insert_visibly
\* calls on a new Model return the handles 0..n-1 and leave
\* first_invisible = n and all n handles visible.
C16_InsertVisibly ==
    Usable =>
        LET element == NewElement(next_handle)
            r == insert_visibly(Self, element)
            i == insert(Self, element)
        IN  /\ r.ret = i.ret
            /\ r.m = make_visible(i.m, i.ret.val).m
            /\ in_visible(r.m, r.ret.val).ret = OkBool(TRUE)
            /\ r.m.first_invisible = first_invisible + 1
            /\ \A n \in 0..MaxInserts :
                   LET f == InsertedVisibly(n)
                   IN  /\ f.handles = [k \in 1..n |-> k - 1]
                       /\ f.m.first_invisible = n
                       /\ \A k \in 0..(n - 1) :
                              in_visible(f.m, k).ret = OkBool(TRUE)

\* C17 (instance upload): with the device calls succeeding,
\* update_instance_buffer returns Ok and has copied exactly
\* instances[0 .. first_invisible) into the instance buffer's memory, that is
\* first_invisible * 140 bytes, and no record from position first_invisible
\* on, whether it creates the instance buffer or finds it.
C17_VisiblePrefixUploaded ==
    Usable =>
        LET r == update_instance_buffer(Self, device, NoFailure)
        IN  /\ r.ret = Ok(Unit)
            /\ r.m.instance_buffer.tag = "Some"
            /\ LET payload == r.d.memory[r.m.instance_buffer.val.memory]
               IN  /\ payload = Slice(instances, 0, first_invisible)
                   /\ size_of_val(payload, size_of_InstanceData) = first_invisible * 140
                   /\ Range(payload)
                        \cap Range(Slice(instances, first_invisible, Len(instances))) = {}

Present(buffer) == buffer.tag = "Some"

\* C18 (draw gating): when vertex_buffer is absent, or instance_buffer is
\* absent, or first_invisible = 0, draw records no command (and leaves the
\* Model as it was).
C18_DrawGating ==
    Usable =>
        ((~Present(vertex_buffer) \/ ~Present(instance_buffer) \/ first_invisible = 0) =>
            (draw(Self).commands = <<>> /\ draw(Self).m = Self))

\* Every buffer is there and records are registered, all of them hidden: only
\* the test of first_invisible keeps draw from recording.
C18_Witness ==
    /\ Usable
    /\ Present(vertex_buffer) /\ Present(index_buffer) /\ Present(instance_buffer)
    /\ Len(instances) > 0
    /\ first_invisible = 0
    /\ draw(Self).commands = <<>>

\* C19 (draw commands): when draw records anything, it returns having
\* recorded exactly four commands, in this order: bind vertex_buffer at
\* vertex binding 0 (offset 0), bind index_buffer at offset 0 with index type
\* UINT32, bind instance_buffer at vertex binding 1 (offset 0), and one
\* draw-indexed with index_count = |index_data|, instance_count =
\* first_invisible and first index, vertex offset and first instance 0.
C19_DrawCommands ==
    Usable =>
        LET r == draw(Self)
        IN  r.commands # <<>> =>
                /\ ~r.m.panicked
                /\ r.commands =
                     << [cmd |-> "cmd_bind_vertex_buffers", buffer |-> vertex_buffer.val.buffer,
                         index_type |-> "", args |-> <<0, 0>>],
                        [cmd |-> "cmd_bind_index_buffer", buffer |-> index_buffer.val.buffer,
                         index_type |-> "UINT32", args |-> <<0>>],
                        [cmd |-> "cmd_bind_vertex_buffers", buffer |-> instance_buffer.val.buffer,
                         index_type |-> "", args |-> <<1, 0>>],
                        [cmd |-> "cmd_draw_indexed", buffer |-> 0 - 1, index_type |-> "",
                         args |-> <<Len(cube_index_data), first_invisible, 0, 0, 0>>] >>

\* The Model's buffers that exist, each with the size of the elements it holds.
ModelBuffers ==
    {[buffer |-> b[1].val, size_of_T |-> b[2]] :
        b \in {x \in {<<vertex_buffer, size_of_VertexData>>,
                      <<index_buffer, size_of_u32>>,
                      <<instance_buffer, size_of_InstanceData>>} : Present(x[1])}}

\* Payloads of n elements; around a capacity of k elements: one fewer, as
\* many, one more.
Payload(n) == [i \in 1..n |-> 0]
Around(k) == {n \in {k - 1, k, k + 1} : n >= 0}

\* The number of destroy_buffer calls made on the device.
RECURSIVE Destroyed(_, _)
Destroyed(d, bs) ==
    IF bs = {} THEN 0
    ELSE LET b == CHOOSE x \in bs : TRUE
         IN  d.destroyed[b] + Destroyed(d, bs \ {b})
Reallocations(d) == Destroyed(d, DOMAIN d.destroyed)

\* Uploads of 4 KiB, 16 KiB and 8 KiB (one element of that size each) into
\* a buffer first made for 4 KiB.
GrowThenShrink ==
    LET made == Buffer_init(NewDevice, 4096, VERTEX_BUFFER, NoFailure)
        u1 == Buffer_fill(made.ret.val, made.d, Payload(1), 4096, NoFailure)
        u2 == Buffer_fill(u1.self, u1.d, Payload(1), 16384, NoFailure)
        u3 == Buffer_fill(u2.self, u2.d, Payload(1), 8192, NoFailure)
    IN  <<u1, u2, u3>>

\* C20 (buffer grow): a model buffer exists only once an update_* call has
\* been made, and the first update_* call that succeeds creates it; an upload
\* of N bytes into a Buffer of capacity C destroys the device buffer if and
\* only if N > C, and when it returns Ok it has created a new one of the same
\* usage exactly in that case and the capacity is at least N; no upload
\* lowers the capacity; uploads of 4 KiB, 16 KiB and 8 KiB cause exactly one
\* reallocation.
C20_BufferGrow ==
    Usable =>
        /\ uploads = 0 =>
             (~Present(vertex_buffer) /\ ~Present(index_buffer) /\ ~Present(instance_buffer))
        /\ ~Present(vertex_buffer) =>
             LET r == update_vertex_buffer(Self, device, NoFailure)
             IN  /\ r.ret = Ok(Unit) /\ Present(r.m.vertex_buffer)
                 /\ r.m.vertex_buffer.val.buffer \in r.d.buffers \ device.buffers
        /\ ~Present(index_buffer) =>
             LET r == update_index_buffer(Self, device, NoFailure)
             IN  /\ r.ret = Ok(Unit) /\ Present(r.m.index_buffer)
                 /\ r.m.index_buffer.val.buffer \in r.d.buffers \ device.buffers
        /\ ~Present(instance_buffer) =>
             LET r == update_instance_buffer(Self, device, NoFailure)
             IN  /\ r.ret = Ok(Unit) /\ Present(r.m.instance_buffer)
                 /\ r.m.instance_buffer.val.buffer \in r.d.buffers \ device.buffers
        /\ \A b \in ModelBuffers :
             \A n \in Around(b.buffer.size_in_bytes \div b.size_of_T), fail \in Failures :
                LET C == b.buffer.size_in_bytes
                    N == n * b.size_of_T
                    f == Buffer_fill(b.buffer, device, Payload(n), b.size_of_T, fail)
                    destroys == Reallocations(f.d) - Reallocations(device)
                    creates == f.d.next_buffer - device.next_buffer
                IN  /\ destroys = (IF N > C THEN 1 ELSE 0)
                    /\ f.self.size_in_bytes >= C
                    /\ f.self.usage = b.buffer.usage
                    /\ f.ret = Ok(Unit) =>
                         /\ creates = (IF N > C THEN 1 ELSE 0)
                         /\ f.self.size_in_bytes >= N
                         /\ N > C => f.self.buffer \in f.d.buffers \ device.buffers
                         /\ N <= C => f.self = b.buffer
        /\ LET u == GrowThenShrink
           IN  /\ u[3].ret = Ok(Unit)
               /\ Reallocations(u[1].d) = 0
               /\ Reallocations(u[2].d) = 1
               /\ Reallocations(u[3].d) = 1
               /\ u[3].d.next_buffer = 2
               /\ u[3].self.size_in_bytes = 16384

\* The instance buffer has been created, has grown, and has then taken a
\* smaller payload without being rebuilt.
C20_Witness ==
    /\ Usable
    /\ Present(instance_buffer)
    /\ Reallocations(device) > 0
    /\ ContainsKey(device.bound, instance_buffer.val.buffer)
    /\ Len(device.bound[instance_buffer.val.buffer]) >= 2
    /\ instance_buffer.val.size_in_bytes
         > size_of_val(device.memory[instance_buffer.val.memory], size_of_InstanceData)

\* The device buffers a Model owns: those its three Option<Buffer> fields name.
Owned(m) ==
    {x.val.buffer : x \in {y \in {m.vertex_buffer, m.index_buffer, m.instance_buffer} :
                              Present(y)}}

\* The calls that follow create_buffer and allocate_memory in an upload.
LaterSteps == {"map_memory", "bind_buffer_memory"}

\* C21 (no leak on partial progress): when an update_*_buffer call has
\* created a device buffer and allocated its memory and then map_memory or
\* bind_buffer_memory fails, the buffer created is the one the Model's
\* vertex_buffer, index_buffer or instance_buffer holds afterwards, both when
\* the call creates the Model's buffer and when it grows it.
C21_NoLeakOnPartialProgress ==
    Usable =>
        \A fail \in LaterSteps :
            \A r \in {update_vertex_buffer(Self, device, fail),
                      update_index_buffer(Self, device, fail),
                      update_instance_buffer(Self, device, fail)} :
                (r.d.buffers \ device.buffers) \subseteq Owned(r.m)

\* ------------------------------------------------------------ the Krakatoa
\* struct Krakatoa (src/krakatoa.rs) as far as its models, its uniform buffer
\* and its destruction go.
UNIFORM_BUFFER == "UNIFORM_BUFFER"
\* [[f32; 4]; 4]
size_of_Matrix4 == 4 * 4 * size_of_f32
\* camera_transforms: [[[f32; 4]; 4]; 2], two identity matrices
camera_transforms == <<"view_matrix", "projection_matrix">>
\* swapchain.min_image_count(3.max(min).min(max)): the images of the swapchain
amount_of_images == 3

\* Krakatoa::init with every call succeeding: the cube with one visible
\* instance and its vertex and instance buffer (no index buffer), then the
\* uniform buffer of 128 bytes, filled with the camera transforms.
Krakatoa_init_cube == insert_visibly(NewModel, NewElement(0)).m
Krakatoa_init_vertices == update_vertex_buffer(Krakatoa_init_cube, NewDevice, NoFailure)
Krakatoa_init_instances ==
    update_instance_buffer(Krakatoa_init_vertices.m, Krakatoa_init_vertices.d, NoFailure)
Krakatoa_init_uniform ==
    Buffer_init(Krakatoa_init_instances.d, 128, UNIFORM_BUFFER, NoFailure)
Krakatoa_init_filled ==
    Buffer_fill(Krakatoa_init_uniform.ret.val, Krakatoa_init_uniform.d,
                camera_transforms, size_of_Matrix4, NoFailure)
Krakatoa_init ==
    [models |-> Krakatoa_init_instances.m,
     uniform_buffer |-> Krakatoa_init_filled.self,
     d |-> Krakatoa_init_filled.d]

\* One destroy call: who issued it, which call, on which handle (the buffer
\* for destroy_buffer, the position in its Vec for an object kept in one).
Call(by, call, handle) == [by |-> by, call |-> call, handle |-> handle]
ForEach(by, call, n) == [i \in 1..n |-> Call(by, call, i - 1)]

\* Pools::cleanup
Pools_cleanup(by) ==
    <<Call(by, "destroy_command_pool", 0), Call(by, "destroy_command_pool", 1)>>
\* Pipeline::cleanup (one descriptor set layout)
Pipeline_cleanup(by) ==
    <<Call(by, "destroy_descriptor_set_layout", 0),
      Call(by, "destroy_pipeline", 0),
      Call(by, "destroy_pipeline_layout", 0)>>
\* Swapchain::cleanup
Swapchain_cleanup(by) ==
    ForEach(by, "destroy_framebuffer", amount_of_images)
    \o ForEach(by, "destroy_image_view", amount_of_images)
    \o ForEach(by, "destroy_semaphore", amount_of_images)
    \o ForEach(by, "destroy_semaphore", amount_of_images)
    \o ForEach(by, "destroy_fence", amount_of_images)
    \o <<Call(by, "destroy_swapchain", 0)>>

\* The destroy_buffer call of `if let Some(b) = &m.<field>`.
DestroyIfSome(by, r, field) ==
    IF field.tag = "Some"
    THEN [d |-> destroy_buffer(r.d, field.val.buffer),
          calls |-> Append(r.calls, Call(by, "destroy_buffer", field.val.buffer))]
    ELSE r

\* <Krakatoa as Drop>::drop for a Krakatoa whose models hold the Model m.
Krakatoa_drop(m, uniform, d) ==
    LET by == "Krakatoa::drop"
        r0 == [d |-> destroy_buffer(d, uniform.buffer),
               calls |-> <<Call(by, "destroy_buffer", uniform.buffer),
                           Call(by, "destroy_descriptor_pool", 0)>>]
        r1 == DestroyIfSome(by, r0, m.vertex_buffer)
        r2 == DestroyIfSome(by, r1, m.instance_buffer)
        r3 == DestroyIfSome(by, r2, m.index_buffer)
    IN  [d |-> r3.d,
         calls |-> r3.calls
                   \o Pools_cleanup(by)
                   \o Pipeline_cleanup(by)
                   \o Swapchain_cleanup(by)
                   \o <<Call(by, "destroy_render_pass", 0),
                        Call(by, "destroy_surface", 0),
                        Call(by, "destroy_debug_utils_messenger", 0),
                        Call(by, "destroy_device", 0),
                        Call(by, "destroy_instance", 0)>>]

\* <Surface as Drop>::drop
Surface_drop == <<Call("Surface::drop", "destroy_surface", 0)>>

\* Dropping the Krakatoa: its own drop, which first waits for the device to
\* be idle, then the drop of its fields, of which only `surface` has one.
DropKrakatoa ==
    /\ ~panicked /\ ~dropped
    /\ uniform_buffer.tag = "Some"
    /\ LET r == Krakatoa_drop(Self, uniform_buffer.val, device)
       IN  /\ device' = r.d
           /\ calls' = r.calls \o Surface_drop
    /\ dropped' = TRUE
    /\ in_flight' = {}
    /\ may_begin_drawing' =
          [i \in DOMAIN may_begin_drawing |->
              may_begin_drawing[i] \/ (i - 1) \in {s.fence : s \in in_flight}]
    /\ UNCHANGED <<modelVars, meshVars, current_image, frames, overlapped>>
    /\ UNCHANGED <<uniform_buffer, commands, uploads, failures>>
    /\ UNCHANGED <<live, removed, returned, writes>>

\* Number of RedrawRequested events explored (guards the handler: frames < MaxFrames).
MaxFrames == 3

\* Camera::update_buffer: data = [view_matrix, projection_matrix]
camera_data == <<"view_matrix", "projection_matrix">>

\* Krakatoa::update(index): records command_buffers[index] anew, with the
\* draw of the model between the begin and the end of the render pass.
Krakatoa_update(m, index) ==
    LET r == draw(m)
    IN  [m |-> r.m, command_buffer |-> index, commands |-> r.commands]

\* A queue_submit: the command buffer it executes and the fence it signals.
Submission(command_buffer, fence) == [command_buffer |-> command_buffer, fence |-> fence]

\* Event::RedrawRequested of main, for the image index that
\* acquire_next_image returns (an image no unfinished submission renders to)
\* and the device call that fails, if one does.  wait_for_fences returns
\* once the fence of the new current_image is signaled.  The unwrap and
\* expect calls panic on an error.
RedrawRequested(image_index, fail) ==
    /\ ~panicked /\ ~dropped
    /\ uniform_buffer.tag = "Some"
    /\ frames < MaxFrames
    /\ fail = NoFailure \/ failures < MaxFailures
    /\ image_index \notin {s.command_buffer : s \in in_flight}
    /\ LET next == (current_image + 1) % amount_of_images
           u == Buffer_fill(uniform_buffer.val, device, camera_data, size_of_Matrix4, fail)
           i == update_instance_buffer(Self, u.d, fail)
           k == Krakatoa_update(i.m, image_index)
           r == IF u.ret.tag # "Ok"
                THEN [m |-> Panicking(Self), d |-> u.d, commands |-> commands,
                      submitted |-> FALSE]
                ELSE IF i.ret.tag # "Ok"
                THEN [m |-> Panicking(i.m), d |-> i.d, commands |-> commands,
                      submitted |-> FALSE]
                ELSE [m |-> k.m, d |-> i.d, commands |-> k.commands,
                      submitted |-> ~k.m.panicked]
       IN  /\ may_begin_drawing[next + 1]
           /\ current_image' = next
           /\ overlapped' = in_flight
           /\ uniform_buffer' = Some(u.self)
           /\ Commit(r)
           /\ device' = r.d
           /\ commands' = r.commands
           /\ failures' = IF u.ret.tag = "Ok" /\ i.ret.tag = "Ok" THEN failures
                          ELSE failures + 1
           /\ in_flight' = IF r.submitted
                           THEN in_flight \cup {Submission(image_index, next)}
                           ELSE in_flight
           /\ may_begin_drawing' = [may_begin_drawing EXCEPT ![next + 1] = FALSE]
    /\ frames' = frames + 1
    /\ UNCHANGED <<uploads, dropped, calls, live, removed, returned, writes>>

\* The queue finishes a submission and signals its fence.
Finish(submission) ==
    /\ submission \in in_flight
    /\ in_flight' = in_flight \ {submission}
    /\ may_begin_drawing' = [may_begin_drawing EXCEPT ![submission.fence + 1] = TRUE]
    /\ UNCHANGED <<modelVars, meshVars, gpuVars, appVars>>
    /\ UNCHANGED <<current_image, frames, overlapped>>
    /\ UNCHANGED <<live, removed, returned, writes>>

\* The state Krakatoa::init returns in.
InitApp ==
    \E app \in {Krakatoa_init} :
        /\ vertex_data = app.models.vertex_data
        /\ index_data = app.models.index_data
        /\ constructed = [by |-> "cube", refinements |-> 0]
        /\ instances = app.models.instances
        /\ handles = app.models.handles
        /\ handle_to_index = app.models.handle_to_index
        /\ first_invisible = app.models.first_invisible
        /\ next_handle = app.models.next_handle
        /\ vertex_buffer = app.models.vertex_buffer
        /\ index_buffer = app.models.index_buffer
        /\ instance_buffer = app.models.instance_buffer
        /\ panicked = app.models.panicked
        /\ device = app.d
        /\ uniform_buffer = Some(app.uniform_buffer)
        /\ dropped = FALSE
        /\ calls = <<>>
        /\ commands = <<>>
        /\ uploads = 0
        /\ failures = 0
        /\ live = MapInsert(EmptyMap, 0, NewElement(0))
        /\ removed = {}
        /\ returned = <<0>>
        /\ writes = 0
        /\ current_image = 0
        /\ may_begin_drawing = [i \in 1..amount_of_images |-> TRUE]
        /\ in_flight = {}
        /\ frames = 0
        /\ overlapped = {}

\* A program that owns a Krakatoa: it adds instances to the model, uploads
\* its buffers on a device any call of which may fail, handles redraw
\* requests while the queue works the submissions off, and drops the
\* Krakatoa in the end.
NextApp ==
    \/ ~dropped /\ InsertVisibly
    \/ \E fail \in Failures : ~dropped /\ UpdateVertexBuffer(fail)
    \/ \E fail \in Failures : ~dropped /\ UpdateIndexBuffer(fail)
    \/ \E fail \in Failures : ~dropped /\ UpdateInstanceBuffer(fail)
    \/ \E image_index \in 0..(amount_of_images - 1), fail \in Failures :
          RedrawRequested(image_index, fail)
    \/ \E submission \in in_flight : Finish(submission)
    \/ DropKrakatoa

SpecApp == InitApp /\ [][NextApp]_vars

\* The calls of Krakatoa::drop named `first` all precede those named `then`.
DropCalls == {i \in DOMAIN calls : calls[i].by = "Krakatoa::drop"}
Precede(first, then) ==
    \A i, j \in DropCalls :
        (calls[i].call = first /\ calls[j].call = then) => i < j
\* The destroy_buffer calls of Krakatoa::drop on the buffers of the models.
ModelBufferCalls ==
    {i \in DropCalls : /\ calls[i].call = "destroy_buffer"
                       /\ calls[i].handle # uniform_buffer.val.buffer}

\* C22 (destruction order): Krakatoa::drop destroys all model buffers, then
\* the descriptor pool, then the pipeline, then the swapchain, then the
\* render pass, then the surface, then the device, then the instance; no
\* model buffer is destroyed after the descriptor pool.
C22_DestructionOrder ==
    dropped =>
        /\ \A i \in ModelBufferCalls, j \in DropCalls :
               calls[j].call = "destroy_descriptor_pool" => i < j
        /\ Precede("destroy_descriptor_pool", "destroy_pipeline")
        /\ Precede("destroy_pipeline", "destroy_swapchain")
        /\ Precede("destroy_swapchain", "destroy_render_pass")
        /\ Precede("destroy_render_pass", "destroy_surface")
        /\ Precede("destroy_surface", "destroy_device")
        /\ Precede("destroy_device", "destroy_instance")

\* ------------------------------------------------------------- the meshes
\* f32 as fixed point: the integer v stands for v / Precision.  Products
\* and square roots are taken on the integers and rounded towards zero.
Precision == 1000
\* Number of refine calls explored (guards refine: refinements < MaxRefinements).
MaxRefinements == 2
\* Number of vertices of the meshes a caller writes down itself.
MaxVertices == 4

f32(n) == n * Precision
Quot(a, b) == IF a >= 0 THEN a \div b ELSE 0 - ((0 - a) \div b)
RECURSIVE ISqrtIn(_, _, _)
ISqrtIn(x, lo, hi) ==
    IF lo >= hi THEN lo
    ELSE LET mid == (lo + hi + 1) \div 2
         IN  IF mid * mid <= x THEN ISqrtIn(x, mid, hi) ELSE ISqrtIn(x, lo, mid - 1)
\* The root of x / Precision^2, as a fixed point number.
ISqrt(x) == ISqrtIn(x, 0, 4 * Precision)

\* vertex.rs: normalize(v: [f32; 3])
normalize(v) ==
    LET l == ISqrt(At(v, 0) * At(v, 0) + At(v, 1) * At(v, 1) + At(v, 2) * At(v, 2))
    IN  <<Quot(At(v, 0) * Precision, l), Quot(At(v, 1) * Precision, l),
          Quot(At(v, 2) * Precision, l)>>

\* VertexData::midpoint
midpoint(a, b) ==
    [position |-> <<Quot(At(a.position, 0) + At(b.position, 0), 2),
                    Quot(At(a.position, 1) + At(b.position, 1), 2),
                    Quot(At(a.position, 2) + At(b.position, 2), 2)>>,
     normal |-> <<Quot(At(a.normal, 0) + At(b.normal, 0), 2),
                  Quot(At(a.normal, 1) + At(b.normal, 1), 2),
                  Quot(At(a.normal, 2) + At(b.normal, 2), 2)>>]

\* (1.0 + 5.0_f32.sqrt()) / 2.0
phi == Quot(f32(1) + ISqrt(f32(5) * Precision), 2)
VertexAt(position) == [position |-> position, normal |-> normalize(position)]

\* Model::icosahedron()
icosahedron ==
    [NewModel EXCEPT
        !.vertex_data =
            <<VertexAt(<<phi, 0 - f32(1), 0>>),        \* 0
              VertexAt(<<phi, f32(1), 0>>),            \* 1
              VertexAt(<<0 - phi, 0 - f32(1), 0>>),    \* 2
              VertexAt(<<0 - phi, f32(1), 0>>),        \* 3
              VertexAt(<<f32(1), 0, 0 - phi>>),        \* 4
              VertexAt(<<0 - f32(1), 0, 0 - phi>>),    \* 5
              VertexAt(<<f32(1), 0, phi>>),            \* 6
              VertexAt(<<0 - f32(1), 0, phi>>),        \* 7
              VertexAt(<<0, 0 - phi, 0 - f32(1)>>),    \* 8
              VertexAt(<<0, 0 - phi, f32(1)>>),        \* 9
              VertexAt(<<0, phi, 0 - f32(1)>>),        \* 10
              VertexAt(<<0, phi, f32(1)>>)>>,          \* 11
        !.index_data =
            <<0, 9, 8,  0, 8, 4,  0, 4, 1,  0, 1, 6,  0, 6, 9,
              8, 9, 2,  8, 2, 5,  8, 5, 4,  4, 5, 10,  4, 10, 1,
              1, 10, 11,  1, 11, 6,  2, 3, 5,  2, 7, 3,  2, 9, 7,
              5, 3, 10,  3, 11, 10,  3, 7, 11,  6, 7, 9,  6, 11, 7>>]

\* The midpoint lookup of refine as it would be if the index of a new
\* midpoint were stored under (x, y) only.
Midpoint_one_way(st, x, y) ==
    IF ContainsKey(st.midpoints, <<x, y>>)
    THEN [st |-> st, index |-> st.midpoints[<<x, y>>]]
    ELSE LET m == Len(st.vertex_data)
         IN  [st |-> [st EXCEPT
                        !.vertex_data = Append(@, midpoint(At(st.vertex_data, x),
                                                           At(st.vertex_data, y))),
                        !.midpoints = MapInsert(@, <<x, y>>, m)],
              index |-> m]

\* `if let Some(xy) = midpoints.get(&(x, y)) { *xy } else { .. }` of refine:
\* the index of the midpoint of the edge, pushed and stored under (x, y) and
\* (y, x) when it is new.
Midpoint(st, x, y) ==
    IF ContainsKey(st.midpoints, <<x, y>>)
    THEN [st |-> st, index |-> st.midpoints[<<x, y>>]]
    ELSE LET m == Len(st.vertex_data)
         IN  [st |-> [st EXCEPT
                        !.vertex_data = Append(@, midpoint(At(st.vertex_data, x),
                                                           At(st.vertex_data, y))),
                        !.midpoints = MapInsert(MapInsert(@, <<x, y>>, m), <<y, x>>, m)],
              index |-> m]

\* The body of `for triangle in self.index_data.chunks(3)`.
RefineTriangle(st, triangle) ==
    LET a == At(triangle, 0)
        b == At(triangle, 1)
        c == At(triangle, 2)
        ab == Midpoint(st, a, b)
        bc == Midpoint(ab.st, b, c)
        ca == Midpoint(bc.st, c, a)
        mab == ab.index
        mbc == bc.index
        mca == ca.index
    IN  [ca.st EXCEPT !.new_indices =
            @ \o <<mca, a, mab, mab, b, mbc, mbc, c, mca, mab, mbc, mca>>]

\* self.index_data.chunks(3), for a length that is a multiple of 3
Chunk3(s, t) == SubSeq(s, 3 * t + 1, 3 * t + 3)
RECURSIVE RefineFrom(_, _, _)
RefineFrom(st, indices, t) ==
    IF 3 * t >= Len(indices) THEN st
    ELSE LET next == RefineTriangle(st, Chunk3(indices, t))
         IN  IF Len(next.new_indices) > 0 THEN RefineFrom(next, indices, t + 1)
             ELSE next

\* Model::refine
refine(m) ==
    LET st == RefineFrom([vertex_data |-> m.vertex_data, midpoints |-> EmptyMap,
                          new_indices |-> <<>>], m.index_data, 0)
    IN  [m EXCEPT !.vertex_data = st.vertex_data, !.index_data = st.new_indices]

RECURSIVE Refined(_, _)
Refined(m, n) == IF n = 0 THEN m ELSE Refined(refine(m), n - 1)

\* Model::sphere(refinements)
sphere(refinements) ==
    LET model == Refined(icosahedron, refinements)
    IN  [model EXCEPT !.vertex_data =
            [i \in DOMAIN model.vertex_data |->
                [model.vertex_data[i] EXCEPT !.position = normalize(@)]]]

\* A mesh the caller writes down: vertices off a common line, and one or two
\* triangles over them.
LiteralVertices ==
    [k \in 1..MaxVertices |->
        [position |-> <<f32(k), f32(k * k), 0>>, normal |-> <<0, 0, f32(1)>>]]
Triangles ==
    {<<a, b, c>> : a, b, c \in 0..(MaxVertices - 1)}
        \ {t \in (0..(MaxVertices - 1)) \X (0..(MaxVertices - 1)) \X (0..(MaxVertices - 1)) :
             t[1] = t[2] \/ t[2] = t[3] \/ t[1] = t[3]}
LiteralIndices == Triangles \cup {s \o t : s, t \in Triangles}

\* model.refine()
Refine ==
    /\ ~panicked
    /\ constructed.refinements < MaxRefinements
    /\ LET r == refine(Self)
       IN  /\ vertex_data' = r.vertex_data
           /\ index_data' = r.index_data
    /\ constructed' = [by |-> IF constructed.by = "sphere" THEN "sphere, refine"
                              ELSE constructed.by,
                       refinements |-> constructed.refinements + 1]
    /\ UNCHANGED <<modelVars, gpuVars, appVars, frameVars>>
    /\ UNCHANGED <<live, removed, returned, writes>>

\* Model::sphere(refinements) replaces the model.  It reads nothing of the
\* model it replaces, so it is taken from the new icosahedron only.
Sphere(refinements) ==
    /\ ~panicked
    /\ constructed = [by |-> "icosahedron", refinements |-> 0]
    /\ LET r == sphere(refinements)
       IN  /\ vertex_data' = r.vertex_data
           /\ index_data' = r.index_data
    /\ constructed' = [by |-> "sphere", refinements |-> refinements]
    /\ UNCHANGED <<modelVars, gpuVars, appVars, frameVars>>
    /\ UNCHANGED <<live, removed, returned, writes>>

\* A new Model with nothing inserted or uploaded: Model::icosahedron(), or a
\* Model literal with a mesh of one or two triangles.
InitMesh ==
    /\ \/ /\ vertex_data = icosahedron.vertex_data
          /\ index_data = icosahedron.index_data
          /\ constructed = [by |-> "icosahedron", refinements |-> 0]
       \/ /\ vertex_data = LiteralVertices
          /\ index_data \in LiteralIndices
          /\ constructed = [by |-> "literal", refinements |-> 0]
    /\ instances = NewModel.instances
    /\ handles = NewModel.handles
    /\ handle_to_index = NewModel.handle_to_index
    /\ first_invisible = NewModel.first_invisible
    /\ next_handle = NewModel.next_handle
    /\ vertex_buffer = NewModel.vertex_buffer
    /\ index_buffer = NewModel.index_buffer
    /\ instance_buffer = NewModel.instance_buffer
    /\ panicked = NewModel.panicked
    /\ device = NewDevice
    /\ uniform_buffer = None
    /\ dropped = FALSE
    /\ calls = <<>>
    /\ commands = <<>>
    /\ uploads = 0
    /\ failures = 0
    /\ live = EmptyMap
    /\ removed = {}
    /\ returned = <<>>
    /\ writes = 0
    /\ current_image = 0
    /\ may_begin_drawing = <<>>
    /\ in_flight = {}
    /\ frames = 0
    /\ overlapped = {}

NextMesh ==
    \/ Refine
    \/ \E refinements \in 0..MaxRefinements : Sphere(refinements)

SpecMesh == InitMesh /\ [][NextMesh]_vars

\* The triangles of a mesh and the undirected edges of a triangle.
TriangleCount(indices) == Len(indices) \div 3
EdgesOf(triangle) ==
    {{At(triangle, 0), At(triangle, 1)}, {At(triangle, 1), At(triangle, 2)},
     {At(triangle, 2), At(triangle, 0)}}
UndirectedEdges(indices) ==
    UNION {EdgesOf(Chunk3(indices, t)) : t \in 0..(TriangleCount(indices) - 1)}
\* The midpoint that the four triangles refine made of triangle t use for the
\* edge e of t: refine writes <<mca, a, mab, mab, b, mbc, mbc, c, mca, ..>>.
MidpointUsed(indices, refined, t, e) ==
    LET old == Chunk3(indices, t)
        new == SubSeq(refined, 12 * t + 1, 12 * t + 12)
    IN  IF e = {At(old, 0), At(old, 1)} THEN new[3]
        ELSE IF e = {At(old, 1), At(old, 2)} THEN new[6]
        ELSE new[1]

\* C23 (icosphere counts, midpoint dedup): a refinement pass turns every
\* triangle into four and adds exactly one new vertex per unique undirected
\* edge of the mesh (3 for a single triangle), the same one for every
\* triangle that has the edge, in whichever direction; sphere(n) has 20 * 4^n
\* triangles (60 * 4^n indices), sphere(0) 12 vertices, sphere(1) 42 vertices
\* and 240 indices, and every index is below the vertex count.
C23_IcosphereCounts ==
    Usable =>
        /\ constructed.refinements < MaxRefinements =>
              LET r == refine(Self)
                  old == 0..(TriangleCount(index_data) - 1)
              IN  /\ Len(r.index_data) = 4 * Len(index_data)
                  /\ Len(r.vertex_data)
                       = Len(vertex_data) + Cardinality(UndirectedEdges(index_data))
                  /\ TriangleCount(index_data) = 1 =>
                         Len(r.vertex_data) = Len(vertex_data) + 3
                  /\ \A i \in DOMAIN r.index_data : r.index_data[i] < Len(r.vertex_data)
                  /\ \A s, t \in old :
                        \A e \in EdgesOf(Chunk3(index_data, s)),
                           f \in EdgesOf(Chunk3(index_data, t)) :
                            LET m == MidpointUsed(index_data, r.index_data, s, e)
                                n == MidpointUsed(index_data, r.index_data, t, f)
                            IN  /\ m >= Len(vertex_data)
                                /\ (e = f) <=> (m = n)
        /\ constructed.by = "sphere" =>
              /\ TriangleCount(index_data) = 20 * 4 ^ constructed.refinements
              /\ Len(index_data) = 60 * 4 ^ constructed.refinements
              /\ constructed.refinements = 0 => Len(vertex_data) = 12
              /\ constructed.refinements = 1 =>
                     (Len(vertex_data) = 42 /\ Len(index_data) = 240)
              /\ \A i \in DOMAIN index_data : index_data[i] < Len(vertex_data)

\* sphere(1): the two triangles of the icosahedron that share an edge walk it
\* in opposite directions.
DirectedEdges(triangle) ==
    {<<At(triangle, 0), At(triangle, 1)>>, <<At(triangle, 1), At(triangle, 2)>>,
     <<At(triangle, 2), At(triangle, 0)>>}
C23_Witness ==
    /\ Usable
    /\ constructed = [by |-> "sphere", refinements |-> 1]
    /\ Len(vertex_data) = 42
    /\ \E s, t \in 0..(TriangleCount(icosahedron.index_data) - 1) :
          \E e \in DirectedEdges(Chunk3(icosahedron.index_data, s)) :
              <<e[2], e[1]>> \in DirectedEdges(Chunk3(icosahedron.index_data, t))

\* Two f32 that differ by rounding only: by less than one part in a hundred
\* of 1.0.
Near(a, b) == a - b <= Precision \div 100 /\ b - a <= Precision \div 100
Length(v) == ISqrt(At(v, 0) * At(v, 0) + At(v, 1) * At(v, 1) + At(v, 2) * At(v, 2))

\* C25 (unit sphere): after sphere(n), every vertex, the midpoints that
\* refinement made included, has its position on the unit sphere and its
\* normal equal to its normalized position.
C25_UnitSphere ==
    (Usable /\ constructed.by = "sphere") =>
        \A i \in DOMAIN vertex_data :
            /\ Near(Length(vertex_data[i].position), f32(1))
            /\ \A k \in 0..2 :
                   Near(At(vertex_data[i].normal, k),
                        At(normalize(vertex_data[i].position), k))

\* ------------------------------------------------------------ the pipeline
\* Pipeline::init: the vertex input state it declares.
R32G32B32_SFLOAT == "R32G32B32_SFLOAT"
R32G32B32A32_SFLOAT == "R32G32B32A32_SFLOAT"
\* vk::VertexInputRate
PerVertex == "VERTEX"
PerInstance == "INSTANCE"
VertexInputAttributeDescription(binding, location, offset, format) ==
    [binding |-> binding, location |-> location, offset |-> offset, format |-> format]
VertexInputBindingDescription(binding, stride, input_rate) ==
    [binding |-> binding, stride |-> stride, input_rate |-> input_rate]
vertex_attrib_descs ==
    <<VertexInputAttributeDescription(0, 0, 0, R32G32B32_SFLOAT),
      VertexInputAttributeDescription(1, 1, 0, R32G32B32A32_SFLOAT),
      VertexInputAttributeDescription(1, 2, 16, R32G32B32A32_SFLOAT),
      VertexInputAttributeDescription(1, 3, 32, R32G32B32A32_SFLOAT),
      VertexInputAttributeDescription(1, 4, 48, R32G32B32A32_SFLOAT),
      VertexInputAttributeDescription(1, 5, 64, R32G32B32_SFLOAT)>>
vertex_binding_descs ==
    <<VertexInputBindingDescription(0, 12, PerVertex),
      VertexInputBindingDescription(1, 76, PerInstance)>>

\* #[repr(C)] struct VertexData and struct InstanceData: the byte offset of
\* every [f32; 3] and of every row [f32; 4] of a matrix, in declaration order.
offsets_of_VertexData ==
    [position |-> {0}, normal |-> {3 * size_of_f32}]
offsets_of_InstanceData ==
    [model_matrix |-> {r * 4 * size_of_f32 : r \in 0..3},
     inverse_model_matrix |-> {size_of_Matrix4 + r * 4 * size_of_f32 : r \in 0..3},
     colour |-> {2 * size_of_Matrix4}]

\* What the pipeline declares for a binding.
Strides(binding) ==
    {b.stride : b \in {x \in Range(vertex_binding_descs) : x.binding = binding}}
AttributeOffsets(binding, format) ==
    {a.offset : a \in {x \in Range(vertex_attrib_descs) :
                          x.binding = binding /\ x.format = format}}

\* C24 (vertex layout): the pipeline's vertex input declaration matches the
\* records that are uploaded: binding 0 has stride 24 = size_of(VertexData)
\* with position at offset 0 and normal at offset 12; binding 1 has stride
\* 140 = size_of(InstanceData) with the rows of the model matrix at 0, 16, 32,
\* 48, those of the inverse model matrix at 64, 80, 96, 112 and the colour at
\* 128.
C24_VertexInputLayout ==
    Usable =>
        /\ size_of_VertexData = 24
        /\ Strides(0) = {size_of_VertexData}
        /\ offsets_of_VertexData = [position |-> {0}, normal |-> {12}]
        /\ AttributeOffsets(0, R32G32B32_SFLOAT)
             = offsets_of_VertexData.position \cup offsets_of_VertexData.normal
        /\ AttributeOffsets(0, R32G32B32A32_SFLOAT) = {}
        /\ size_of_InstanceData = 140
        /\ Strides(1) = {size_of_InstanceData}
        /\ offsets_of_InstanceData
             = [model_matrix |-> {0, 16, 32, 48},
                inverse_model_matrix |-> {64, 80, 96, 112}, colour |-> {128}]
        /\ AttributeOffsets(1, R32G32B32A32_SFLOAT)
             = offsets_of_InstanceData.model_matrix
                 \cup offsets_of_InstanceData.inverse_model_matrix
        /\ AttributeOffsets(1, R32G32B32_SFLOAT) = offsets_of_InstanceData.colour

\* The number of bind_buffer_memory calls made on a buffer.
Binds(d, buffer) == IF ContainsKey(d.bound, buffer) THEN Len(d.bound[buffer]) ELSE 0

\* C26 (bind once): memory is bound to a device buffer when Buffer::init
\* creates it, and Buffer::fill only maps, copies and unmaps: across any
\* sequence of uploads bind_buffer_memory is issued exactly once for each
\* device buffer, before the first copy into it, and never again on a buffer
\* that is bound.
C26_BindOnce ==
    Usable =>
        /\ LET made == Buffer_init(device, size_of_VertexData, VERTEX_BUFFER, NoFailure)
           IN  Binds(made.d, made.ret.val.buffer) = 1
        /\ \A b \in ModelBuffers :
              /\ Binds(device, b.buffer.buffer) = 1
              /\ LET f == Buffer_fill(b.buffer, device,
                                      Payload(b.buffer.size_in_bytes \div b.size_of_T),
                                      b.size_of_T, NoFailure)
                 IN  /\ f.ret = Ok(Unit)
                     /\ f.d.bound = device.bound
        /\ \A buffer \in DOMAIN device.bound : Binds(device, buffer) = 1

\* A caller that keeps to the contract: it inserts, and it passes remove,
\* make_visible and make_invisible only handles that an insertion returned
\* and that it has not removed; it uploads the instances at any time.
NextUse ==
    \/ Insert
    \/ InsertVisibly
    \/ \E handle \in HandleArgs : Registered(handle) /\ Remove(handle)
    \/ \E handle \in HandleArgs : Registered(handle) /\ MakeVisible(handle)
    \/ \E handle \in HandleArgs : Registered(handle) /\ MakeInvisible(handle)
    \/ UpdateInstanceBuffer(NoFailure)

SpecUse == Init /\ [][NextUse]_vars

\* C27 (no panic under correct use): in a sequence of insert, insert_visibly,
\* make_visible, make_invisible and remove calls that are passed only handles
\* obtained from an insertion and not removed, no call panics (no index out
\* of bounds, no underflow of first_invisible, no pop of an empty vector),
\* and the slice instances[0..first_invisible] of a following
\* update_instance_buffer is in bounds.
C27_NoPanicUnderCorrectUse ==
    /\ ~panicked
    /\ first_invisible <= Len(instances)
    /\ update_instance_buffer(Self, device, NoFailure).ret # Panic

\* The model main puts into krakatoa.models (bin/krakatoa.rs:28-88): a cube
\* with instances inserted visibly, its vertex and its instance buffer
\* uploaded.
MainCube == InsertedVisibly(MaxInserts).m
MainVertices == update_vertex_buffer(MainCube, Krakatoa_init.d, NoFailure)
MainModel == update_instance_buffer(MainVertices.m, MainVertices.d, NoFailure).m

\* C28 (draw never panics): in every state in which vertex_buffer and
\* instance_buffer are present and first_invisible > 0, index_buffer is
\* present too, so that draw does not panic; this holds for the models of
\* the program's own setup path (Krakatoa::init and main).
C28_DrawNeverPanics ==
    Usable =>
        /\ (Present(vertex_buffer) /\ Present(instance_buffer) /\ first_invisible > 0)
              => Present(index_buffer)
        /\ ~draw(Self).m.panicked
        /\ ~draw(Krakatoa_init.models).m.panicked
        /\ ~draw(MainModel).m.panicked

\* The positions in `calls` of the calls of one name.
CallsOf(call) == {i \in DOMAIN calls : calls[i].call = call}

\* C29 (destroy once): over the program's lifetime, the drop of the Krakatoa
\* and of its fields and a Buffer::fill whose re-creation fails included, no
\* device buffer and no surface has its destroy call issued twice, and none
\* is issued after destroy_device or destroy_instance.
C29_DestroyedOnce ==
    /\ \A buffer \in DOMAIN device.destroyed : device.destroyed[buffer] <= 1
    /\ Cardinality(CallsOf("destroy_surface")) <= 1
    /\ \A i \in CallsOf("destroy_device") \cup CallsOf("destroy_instance") :
          \A j \in CallsOf("destroy_buffer") \cup CallsOf("destroy_surface") : j < i

\* C30 (render loop): the host never rewrites or reallocates a model's
\* instance buffer or the camera uniform buffer, and never records a command
\* buffer anew, while a submitted frame that uses it may still be executing:
\* the writes of a RedrawRequested step come after a wait on the fence of the
\* most recent submission that used the resource, whichever image index the
\* swapchain returns.
C30_NoWriteWhileInFlight ==
    overlapped = {}

====
